---- MODULE Spec2Model ----
(***************************************************************************)
(* Model of the `bracer` proc-macro helpers: the token model, the          *)
(* expression-list normalizer extend_concat_as_lines, the label allocator  *)
(* next_local_label, the conditional-block builder when_impl, the          *)
(* code-mode-scope, register-transfer, fake-blx and CPU-control builders,  *)
(* and the conversions between TokenTree and EzTokenTree.                  *)
(*                                                                         *)
(* Text is modelled as a sequence of one-character strings, so that        *)
(* quoting, escaping and formatting are computed and not assumed.          *)
(***************************************************************************)
EXTENDS Integers, Sequences, FiniteSets, TLC

(***************************************************************************)
(* Bounds of the model.                                                    *)
(***************************************************************************)
MaxLen == 2        \* longest arbitrary token sequence fed to the normalizer
MaxItems == 2      \* most items of a well-formed expression list
MaxCalls == 2      \* normalizer calls recorded in one behaviour
MaxPrior == 1      \* labels taken before the expansion that is observed
NumThreads == 2    \* threads that expand macros at the same time
MaxLabels == 11    \* next_local_label calls in one behaviour
MaxExpansions == 3  \* macro expansions in one behaviour that takes labels
MaxDepth == 2      \* deepest nesting of groups in a token that is classified

VARIABLES
  acc,     \* concat_exprs: the accumulator handed to extend_concat_as_lines
  calls,   \* history of normalizer calls: <<[pre, inp], ...>>, oldest first
  NEXT,    \* static NEXT: AtomicU64 of next_local_label
  th,      \* per thread: where it is inside next_local_label
  issued,  \* the labels returned so far, each with the value it was made from
  returns, \* how many calls of next_local_label have returned
  whenIn,  \* the token stream handed to when_impl
  whenOut, \* what when_impl made of it: the output tokens or the panic
  log      \* the macro expansions so far: <<[macro, stream, out], ...>>

normVars == <<acc, calls>>
labelVars == <<NEXT, th, issued, returns>>
whenVars == <<whenIn, whenOut>>
vars == <<acc, calls, NEXT, th, issued, returns, whenIn, whenOut, log>>

(***************************************************************************)
(* proc_macro::TokenTree.  A Literal carries its source text, quotes       *)
(* included, as Literal's Display prints it.                               *)
(***************************************************************************)
Punct(ch, sp) == [k |-> "Punct", ch |-> ch, sp |-> sp]
Literal(text) == [k |-> "Literal", text |-> text]
Ident(name) == [k |-> "Ident", name |-> name, span |-> "call_site"]
Group(delim, stream) == [k |-> "Group", delim |-> delim, stream |-> stream]

\* Punct::new(',', Spacing::Alone)
CommaAlone == Punct(",", "Alone")
\* Literal::character('\n'): the four characters ' \ n '
NewlineChar == Literal(<<"'", "\\", "n", "'">>)

\* the escapes Literal::string writes for the characters used here
EscapeChar(c) ==
  CASE c = "\n" -> <<"\\", "n">>
    [] c = "\"" -> <<"\\", "\"">>
    [] c = "\\" -> <<"\\", "\\">>
    [] OTHER -> <<c>>

RECURSIVE Escape(_)
Escape(str) ==
  IF str = <<>> THEN <<>> ELSE EscapeChar(Head(str)) \o Escape(Tail(str))

\* Literal::string(str): a string literal whose value is str
LiteralString(str) == Literal(<<"\"">> \o Escape(str) \o <<"\"">>)

\* matches!(tree, TokenTree::Punct(p) if *p == ','): Punct == char compares
\* the character only, so a Joint comma matches too.
IsComma(tree) == tree.k = "Punct" /\ tree.ch = ","

Last(s) == s[Len(s)]

\* the three pushes `,` '\n' `,`
Triple == <<CommaAlone, NewlineChar, CommaAlone>>

(***************************************************************************)
(* extend_concat_as_lines, util.rs 141-175.                                *)
(***************************************************************************)
\* mutant: the test for an existing trailing `,` is forgotten
PushTripleAlways(buf) ==
  IF buf # <<>> THEN buf \o Triple ELSE buf

\* lines 146-152 and again 168-174: if there is a last element and it is
\* not a `,`, push the triple.
PushTripleUnlessComma(buf) ==
  IF buf # <<>> /\ ~IsComma(Last(buf)) THEN buf \o Triple ELSE buf

\* mutant: the leading fix-up pushes even after a `,`
PreCheckAlways(buf) == PushTripleAlways(buf)

\* lines 146-152
PreCheck(buf) == PushTripleUnlessComma(buf)

\* mutant: the trailing fix-up is left out
PostCheckSkipped(buf) == buf

\* mutant: the trailing fix-up pushes even after a `,`
PostCheckAlways(buf) == PushTripleAlways(buf)

\* lines 168-174
PostCheck(buf) == PushTripleUnlessComma(buf)

\* mutant: a `,` of the input is passed on as one `,`, with no newline
LoopStepCommaOnly(buf, token_tree) ==
  Append(buf, IF IsComma(token_tree) THEN CommaAlone ELSE token_tree)

\* one iteration of the for loop, lines 155-164
LoopStep(buf, token_tree) ==
  IF IsComma(token_tree) THEN buf \o Triple ELSE Append(buf, token_tree)

\* the for loop, lines 154-165
RECURSIVE ForLoop(_, _)
ForLoop(buf, iter) ==
  IF iter = <<>> THEN buf
  ELSE ForLoop(LoopStep(buf, Head(iter)), Tail(iter))

extend_concat_as_lines(concat_exprs, iter) ==
  PostCheck(ForLoop(PreCheck(concat_exprs), iter))

(***************************************************************************)
(* next_local_label, util.rs 8-12 (lib.rs 32-36 is the same code; every    *)
(* caller names it through `use super::*`, so all callers share one        *)
(* function and one static NEXT).                                          *)
(***************************************************************************)
Threads == 1..NumThreads

\* the macros whose expansion calls next_local_label:
\* a32_fake_blx_impl.rs 6, when_impl.rs 11
LabelMacros == {"a32_fake_blx", "when"}

\* ".L_bracer_local_label_", util.rs 11
LabelPrefix ==
  <<".", "L", "_", "b", "r", "a", "c", "e", "r", "_", "l", "o", "c", "a",
    "l", "_", "l", "a", "b", "e", "l", "_">>

DigitChars == <<"0", "1", "2", "3", "4", "5", "6", "7", "8", "9">>

\* Display of an unsigned integer: decimal digits, no padding
RECURSIVE Decimal(_)
Decimal(n) ==
  IF n < 10 THEN <<DigitChars[n + 1]>>
  ELSE Decimal(n \div 10) \o <<DigitChars[(n % 10) + 1]>>

\* mutant: the increment is lost
FetchAddLost(n) == n

\* the value NEXT holds after NEXT.fetch_add(1, Ordering::Relaxed); the
\* AtomicU64 wraps at 2^64, far beyond MaxLabels
FetchAdd(n) == n + 1

\* mutant: the label is formatted from the value after the increment
FormatLabelAfter(n) == LabelPrefix \o Decimal(n + 1)

\* format!(".L_bracer_local_label_{}", n), n the value fetch_add returned
FormatLabel(n) == LabelPrefix \o Decimal(n)

NoLabel == <<>>

\* no expansion of when! has run, and no macro expansion is logged
NoOutput ==
  [status |-> "none", msg |-> <<>>, cond |-> <<>>, label |-> NoLabel,
   tokens |-> <<>>, allocated |-> FALSE]

InitWhenVars ==
  /\ whenIn = <<>>
  /\ whenOut = NoOutput
  /\ log = <<>>

InitLabelVars ==
  /\ NEXT = 0
  /\ th = [t \in Threads |->
             [pc |-> "idle", macro |-> "none", val |-> 0, last |-> NoLabel]]
  /\ issued = {}
  /\ returns = 0

\* thread t, expanding macro m, enters next_local_label and performs the
\* atomic fetch_add: it reads NEXT and adds one in a single step
FetchAddStep(t, m) ==
  /\ th[t].pc = "idle"
  /\ NEXT < MaxLabels
  /\ th' = [th EXCEPT ![t].pc = "fetched", ![t].macro = m, ![t].val = NEXT]
  /\ NEXT' = FetchAdd(NEXT)
  /\ UNCHANGED <<issued, returns>>

\* thread t formats the value it fetched and returns the label; `last` keeps
\* the label for the caller
FormatStep(t) ==
  /\ th[t].pc = "fetched"
  /\ issued' = issued \cup {[n |-> th[t].val, label |-> FormatLabel(th[t].val)]}
  /\ returns' = returns + 1
  /\ th' = [th EXCEPT ![t].pc = "idle", ![t].macro = "none", ![t].val = 0,
                      ![t].last = FormatLabel(th[t].val)]
  /\ UNCHANGED NEXT

InitLabel ==
  /\ InitLabelVars
  /\ InitWhenVars
  /\ acc = <<>>
  /\ calls = <<>>

NextLabel ==
  \/ \E t \in Threads, m \in LabelMacros :
       FetchAddStep(t, m) /\ UNCHANGED <<normVars, whenVars, log>>
  \/ \E t \in Threads : FormatStep(t) /\ UNCHANGED <<normVars, whenVars, log>>

SpecLabel == InitLabel /\ [][NextLabel]_vars

(***************************************************************************)
(* Inputs of the normalizer.                                               *)
(***************************************************************************)
\* the string literal "a"
LitA == Literal(<<"\"", "a", "\"">>)
\* a comma that is Joint with the punctuation after it
CommaJoint == Punct(",", "Joint")
\* a nested group that holds a comma of its own: ("a", "a")
GroupWithComma == Group("Parenthesis", <<LitA, CommaAlone, LitA>>)
\* Literal::string(".code 32\n"), t32_with_an_a32_scope_impl.rs 5
Code32 == LiteralString(<<".", "c", "o", "d", "e", " ", "3", "2", "\n">>)

NormTokens == {LitA, CommaAlone, CommaJoint}
ItemTokens == {LitA, GroupWithComma}

SeqsUpTo(S, n) == UNION {[1..m -> S] : m \in 0..n}

\* expression lists of n items, without and with a trailing comma
ExprListsOf(n) ==
  { [i \in 1..(2 * n - 1) |-> IF i % 2 = 1 THEN items[(i + 1) \div 2]
                                           ELSE CommaAlone]
      : items \in [1..n -> ItemTokens] }
  \cup
  { [i \in 1..(2 * n) |-> IF i % 2 = 1 THEN items[(i + 1) \div 2]
                                       ELSE CommaAlone]
      : items \in [1..n -> ItemTokens] }

NormInputs ==
  SeqsUpTo(NormTokens, MaxLen) \cup UNION {ExprListsOf(n) : n \in 0..MaxItems}

\* accumulators a caller may hand over: empty, a header without and with its
\* separator (t32_with_an_a32_scope_impl.rs 4-6), and a lone separator
InitAccs == {<<>>, <<Code32>>, <<Code32, CommaAlone>>, <<CommaJoint>>}

InitNorm ==
  /\ acc \in InitAccs
  /\ calls = <<>>
  /\ InitLabelVars
  /\ InitWhenVars

\* one call extend_concat_as_lines(&mut acc, inp)
Normalize(inp) ==
  /\ Len(calls) < MaxCalls
  /\ acc' = extend_concat_as_lines(acc, inp)
  /\ calls' = Append(calls, [pre |-> acc, inp |-> inp])
  /\ UNCHANGED <<labelVars, whenVars, log>>

NextNorm == \E inp \in NormInputs : Normalize(inp)

SpecNorm == InitNorm /\ [][NextNorm]_vars

(***************************************************************************)
(* EzTokenTree and From<TokenTree> for EzTokenTree, util.rs 84-111.        *)
(***************************************************************************)
EzGroup(delim, trees) == [ez |-> "EzGroup", delim |-> delim, trees |-> trees]
EzId(str, span) == [ez |-> "EzId", s |-> str, span |-> span]
EzPu(ch, sp) == [ez |-> "EzPu", ch |-> ch, sp |-> sp]
EzLi(str) == [ez |-> "EzLi", s |-> str]

RECURSIVE EzFrom(_)
EzFrom(value) ==
  CASE value.k = "Group" ->
         EzGroup(value.delim,
                 [i \in 1..Len(value.stream) |-> EzFrom(value.stream[i])])
    [] value.k = "Ident" -> EzId(value.name, value.span)
    [] value.k = "Punct" -> EzPu(value.ch, value.sp)
    [] value.k = "Literal" -> EzLi(value.text)

(***************************************************************************)
(* when_impl, when_impl.rs 3-95.                                           *)
(***************************************************************************)
TooFewTokens == <<"t", "o", "o", " ", "f", "e", "w", " ", "t", "o", "k", "e",
  "n", "s">>
MustHaveTestGroup == 
  <<"m", "u", "s", "t", " ", "h", "a", "v", "e", " ", "a", " ",
    "g", "r", "o", "u", "p", " ", "f", "o", "r", " ", "t", "h",
    "e", " ", "t", "e", "s", "t">>
MustHaveBodyGroup == 
  <<"m", "u", "s", "t", " ", "h", "a", "v", "e", " ", "a", " ",
    "g", "r", "o", "u", "p", " ", "f", "o", "r", " ", "t", "h",
    "e", " ", "b", "o", "d", "y">>
TooManyTokens == <<"t", "o", "o", " ", "m", "a", "n", "y", " ", "t", "o", "k",
  "e", "n", "s">>
UnknownTestExpression == 
  <<"u", "n", "k", "n", "o", "w", "n", " ", "t", "e", "s", "t",
    " ", "e", "x", "p", "r", "e", "s", "s", "i", "o", "n">>

IsLi(e) == e.ez = "EzLi"
IsPu(e, ch, sp) == e.ez = "EzPu" /\ e.ch = ch /\ e.sp = sp
IsPuAnySpacing(e, ch) == e.ez = "EzPu" /\ e.ch = ch

\* mutant: the guard on the signedness identifier is dropped
IsIdAny(e, name) == e.ez = "EzId"

\* EzId(i, _) if i == name
IsId(e, name) == e.ez = "EzId" /\ e.s = name

\* mutant: the first character of a two-character operator is not looked at
TwoPunctShapeAnyChar(t, c) ==
  /\ Len(t) = 4
  /\ IsLi(t[1])
  /\ t[2].ez = "EzPu" /\ t[2].sp = "Joint"
  /\ IsPuAnySpacing(t[3], "=")
  /\ IsLi(t[4])

\* [EzLi(lhs), EzPu(c, Joint), EzPu('=', _), EzLi(op2)]
TwoPunctShape(t, c) ==
  /\ Len(t) = 4
  /\ IsLi(t[1])
  /\ IsPu(t[2], c, "Joint")
  /\ IsPuAnySpacing(t[3], "=")
  /\ IsLi(t[4])

\* [EzLi(lhs), EzPu(c, Joint), EzPu('=', _), EzId(i, _), EzLi(op2)] if i == sign
TwoPunctSignedShape(t, c, sign) ==
  /\ Len(t) = 5
  /\ IsLi(t[1])
  /\ IsPu(t[2], c, "Joint")
  /\ IsPuAnySpacing(t[3], "=")
  /\ IsId(t[4], sign)
  /\ IsLi(t[5])

\* [EzLi(lhs), EzPu(c, Alone), EzId(i, _), EzLi(op2)] if i == sign
OnePunctSignedShape(t, c, sign) ==
  /\ Len(t) = 4
  /\ IsLi(t[1])
  /\ IsPu(t[2], c, "Alone")
  /\ IsId(t[3], sign)
  /\ IsLi(t[4])

SignU == <<"u">>
SignI == <<"i">>

\* the ten arms of the match, in the order of the source (lines 22-51)
ArmMatches(r, t) ==
  CASE r = 1 -> TwoPunctShape(t, "=")
    [] r = 2 -> TwoPunctShape(t, "!")
    [] r = 3 -> TwoPunctSignedShape(t, ">", SignU)
    [] r = 4 -> TwoPunctSignedShape(t, "<", SignU)
    [] r = 5 -> OnePunctSignedShape(t, "<", SignU)
    [] r = 6 -> OnePunctSignedShape(t, ">", SignU)
    [] r = 7 -> TwoPunctSignedShape(t, ">", SignI)
    [] r = 8 -> TwoPunctSignedShape(t, "<", SignI)
    [] r = 9 -> OnePunctSignedShape(t, "<", SignI)
    [] r = 10 -> OnePunctSignedShape(t, ">", SignI)

\* mutant: the condition of the test itself, not the inverted one
ArmCondNotInverted(r) ==
  <<<<"e", "q">>, <<"n", "e">>, <<"h", "s">>, <<"l", "s">>, <<"l", "o">>,
    <<"h", "i">>, <<"g", "e">>, <<"l", "e">>, <<"l", "t">>, <<"g", "t">>>>[r]

\* the mnemonic each arm yields
ArmCond(r) ==
  <<<<"n", "e">>, <<"e", "q">>, <<"l", "o">>, <<"h", "i">>, <<"h", "s">>,
    <<"l", "s">>, <<"l", "t">>, <<"g", "t">>, <<"g", "e">>, <<"l", "e">>>>[r]

Arms == 1..10

MatchingArms(t) == {r \in Arms : ArmMatches(r, t)}

\* a match takes the first arm that matches
FirstArm(t) ==
  CHOOSE r \in MatchingArms(t) : \A q \in MatchingArms(t) : r <= q

\* the loop over the body, lines 62-73
WhenLoopStep(buf, token_tree) ==
  IF IsComma(token_tree)
  THEN buf \o <<CommaAlone, NewlineChar, CommaAlone>>
  ELSE Append(buf, token_tree)

RECURSIVE WhenForLoop(_, _)
WhenForLoop(buf, stream) ==
  IF stream = <<>> THEN buf
  ELSE WhenForLoop(WhenLoopStep(buf, Head(stream)), Tail(stream))

\* the fix-up before the ending label, lines 75-81
WhenFixUp(buf) ==
  IF ~IsComma(Last(buf))
  THEN buf \o <<CommaAlone, NewlineChar, CommaAlone>>
  ELSE buf

\* format!("cmp {lhs}, {op2}\n    b{cond} {local_label}\n"): the format
\* string runs over two source lines, so the line break and the four spaces
\* of indentation of line 58 are part of it
FormatCmp(lhs, op2, cond, local_label) ==
  <<"c", "m", "p", " ">> \o lhs \o <<",", " ">> \o op2
    \o <<"\n", " ", " ", " ", " ", "b">> \o cond \o <<" ">> \o local_label
    \o <<"\n">>

\* format!("{local_label}:\n")
FormatLabelLine(local_label) == local_label \o <<":", "\n">>

WhenPanic(msg, allocated) ==
  [status |-> "panic", msg |-> msg, cond |-> <<>>, label |-> NoLabel,
   tokens |-> <<>>, allocated |-> allocated]

\* when_impl on token_stream when NEXT holds next.  `allocated` tells whether
\* next_local_label (line 11) was reached.
when_impl(token_stream, next) ==
  IF Len(token_stream) < 1 THEN WhenPanic(TooFewTokens, FALSE)
  ELSE IF token_stream[1].k # "Group" THEN WhenPanic(MustHaveTestGroup, FALSE)
  ELSE IF Len(token_stream) < 2 THEN WhenPanic(TooFewTokens, FALSE)
  ELSE IF token_stream[2].k # "Group" THEN WhenPanic(MustHaveBodyGroup, FALSE)
  ELSE IF Len(token_stream) > 2 THEN WhenPanic(TooManyTokens, FALSE)
  ELSE
    LET test_group == token_stream[1]
        body_group == token_stream[2]
        local_label == FormatLabel(next)
        test_trees == [i \in 1..Len(test_group.stream) |->
                         EzFrom(test_group.stream[i])]
    IN IF MatchingArms(test_trees) = {}
       THEN WhenPanic(UnknownTestExpression, TRUE)
       ELSE
         LET cond == ArmCond(FirstArm(test_trees))
             lhs == test_trees[1].s
             op2 == Last(test_trees).s
             header == <<LiteralString(FormatCmp(lhs, op2, cond, local_label)),
                         CommaAlone>>
             out_buffer ==
               Append(WhenFixUp(WhenForLoop(header, body_group.stream)),
                      LiteralString(FormatLabelLine(local_label)))
         IN [status |-> "ok", msg |-> <<>>, cond |-> cond,
             label |-> local_label,
             tokens |-> <<Ident(<<"c", "o", "n", "c", "a", "t">>),
                          Punct("!", "Alone"),
                          Group("Parenthesis", out_buffer)>>,
             allocated |-> TRUE]

(***************************************************************************)
(* Inputs of when!.  A Punct is Joint only when another Punct follows it,  *)
(* as the lexer spaces them.                                               *)
(***************************************************************************)
LitR0 == Literal(<<"\"", "r", "0", "\"">>)
LitHash0 == Literal(<<"\"", "#", "0", "\"">>)
LitNum0 == Literal(<<"0">>)
IdentX == Ident(<<"x">>)
IdentU == Ident(SignU)
IdentI == Ident(SignI)

LhsTokens == {LitR0, IdentX}
RhsTokens == {LitHash0, LitNum0, IdentX}
FirstPuncts == {Punct(c, sp) : c \in {"=", "!", "<", ">", "+"},
                               sp \in {"Joint", "Alone"}}
SecondPuncts == {Punct("=", "Alone"), Punct("+", "Alone"), Punct(">", "Alone")}
SignTokens == {IdentU, IdentI, IdentX, LitNum0}

WellLexed(t) ==
  \A i \in 1..Len(t) :
    (t[i].k = "Punct" /\ t[i].sp = "Joint") =>
      (i < Len(t) /\ t[i + 1].k = "Punct")

WhenTests ==
  { t \in
      {<<>>, <<LitR0>>, <<LitR0, LitHash0>>}
      \cup {<<l, p, r>> : l \in LhsTokens, p \in FirstPuncts, r \in RhsTokens}
      \cup {<<l, p, q, r>> : l \in LhsTokens, p \in FirstPuncts,
                             q \in SecondPuncts \cup SignTokens,
                             r \in RhsTokens}
      \cup {<<l, p, q, g, r>> : l \in LhsTokens, p \in FirstPuncts,
                                q \in SecondPuncts, g \in SignTokens,
                                r \in RhsTokens}
      \cup {<<l, p, q, g, r, r>> : l \in {LitR0}, p \in FirstPuncts,
                                   q \in SecondPuncts, g \in {IdentU},
                                   r \in {LitHash0}}
    : WellLexed(t) }

\* the tests of the unit test, the_tests.rs 119-169
UnitTests ==
  {<<LitR0, Punct("!", "Joint"), Punct("=", "Alone"), LitHash0>>,
   <<LitR0, Punct("<", "Alone"), IdentI, LitHash0>>,
   <<LitR0, Punct(">", "Joint"), Punct("=", "Alone"), IdentU, LitNum0>>}

\* the body lines of the unit test, the_tests.rs 120-121
LitAdd1 == LiteralString(
  <<"a", "d", "d", " ", "r", "1", ",", " ", "r", "2", ",", " ",
    "r", "3">>)
LitAdd2 == LiteralString(
  <<"a", "d", "d", " ", "r", "0", ",", " ", "r", "1", ",", " ",
    "r", "4">>)

WhenBodies ==
  NormInputs \cup {<<LitAdd1, CommaAlone, LitAdd2, CommaAlone>>,
                   <<LitAdd1, CommaAlone, LitAdd2>>}

\* when!((test){body}), with every test over one body and every body under
\* the tests of the unit test, and streams that are not two groups
WhenStreams ==
  {<<Group("Parenthesis", t), Group("Brace", <<LitA, CommaAlone>>)>>
     : t \in WhenTests}
  \cup {<<Group("Parenthesis", t), Group("Brace", b)>>
          : t \in UnitTests, b \in WhenBodies}
  \cup {<<>>, <<LitA>>, <<Group("Parenthesis", <<>>)>>,
        <<Group("Parenthesis", <<>>), LitA>>,
        <<Group("Parenthesis", <<>>), Group("Brace", <<>>), LitA>>}

\* one expansion of when!: the whole of when_impl, the label allocation
\* included
When(token_stream) ==
  /\ whenOut.status = "none"
  /\ whenIn' = token_stream
  /\ whenOut' = when_impl(token_stream, NEXT)
  /\ NEXT' = IF whenOut'.allocated THEN FetchAdd(NEXT) ELSE NEXT
  /\ UNCHANGED <<normVars, th, issued, returns, log>>

\* the expansion observed comes after 0..MaxPrior earlier label allocations
InitWhen ==
  /\ NEXT \in 0..MaxPrior
  /\ th = [t \in Threads |->
             [pc |-> "idle", macro |-> "none", val |-> 0, last |-> NoLabel]]
  /\ issued = {}
  /\ returns = 0
  /\ InitWhenVars
  /\ acc = <<>>
  /\ calls = <<>>

NextWhen == \E token_stream \in WhenStreams : When(token_stream)

SpecWhen == InitWhen /\ [][NextWhen]_vars

(***************************************************************************)
(* Claims about the normalizer, checked under SpecNorm.                    *)
(***************************************************************************)
LastCall == calls[Len(calls)]

EndsInSep(s) == s # <<>> /\ IsComma(Last(s))

\* s holds separator, newline fragment, separator at p, p+1, p+2
TripleAt(s, p) ==
  /\ p + 2 <= Len(s)
  /\ IsComma(s[p])
  /\ s[p + 1] = NewlineChar
  /\ IsComma(s[p + 2])

CommasBefore(s, i) == Cardinality({j \in 1..(i - 1) : IsComma(s[j])})

\* C1: after every call the accumulator is empty or its last token is a
\* separator mark, whatever the accumulator and the input were.
C1_EndsInSeparator ==
  calls # <<>> => (acc = <<>> \/ IsComma(Last(acc)))

\* two calls were made and the last input had no trailing comma
C1_Witness ==
  /\ Len(calls) = 2
  /\ LastCall.inp # <<>>
  /\ ~IsComma(Last(LastCall.inp))
  /\ EndsInSep(acc)

\* C2: the output is the old accumulator, an optional leading triple, the
\* input in order with each top-level comma replaced by the triple and every
\* other token (a Group and the commas in it included) unchanged, and an
\* optional trailing triple; nothing else.
C2_CommaRewrite ==
  calls # <<>> =>
    LET pre == LastCall.pre
        inp == LastCall.inp
    IN \E lead \in {0, 3}, trail \in {0, 3} :
         LET base == Len(pre) + lead
             mid == Len(inp) + 2 * CommasBefore(inp, Len(inp) + 1)
         IN /\ Len(acc) = base + mid + trail
            /\ SubSeq(acc, 1, Len(pre)) = pre
            /\ lead = 3 => TripleAt(acc, Len(pre) + 1)
            /\ trail = 3 => TripleAt(acc, base + mid + 1)
            /\ \A i \in 1..Len(inp) :
                 LET p == base + i + 2 * CommasBefore(inp, i)
                 IN IF IsComma(inp[i]) THEN TripleAt(acc, p)
                                       ELSE acc[p] = inp[i]

\* the last input held a Group with a comma inside and a top-level comma
C2_Witness ==
  /\ calls # <<>>
  /\ \E i, j \in 1..Len(LastCall.inp) :
       /\ LastCall.inp[i] = GroupWithComma
       /\ IsComma(LastCall.inp[j])
  /\ \E p \in 1..Len(acc) : acc[p] = GroupWithComma

\* C3 as stated: for non-empty A and B, normalize A then normalize B gives
\* what one call with A, B (comma-joined) gives.
C3_ComposeAnyA ==
  (Len(calls) = 2 /\ calls[1].inp # <<>> /\ calls[2].inp # <<>>) =>
    acc = extend_concat_as_lines(
            calls[1].pre, calls[1].inp \o <<CommaAlone>> \o calls[2].inp)

\* C3 amended: the same, for A that does not end in a comma.
C3_ComposeNoTrailingComma ==
  (/\ Len(calls) = 2
   /\ calls[1].inp # <<>>
   /\ calls[2].inp # <<>>
   /\ ~IsComma(Last(calls[1].inp))) =>
    acc = extend_concat_as_lines(
            calls[1].pre, calls[1].inp \o <<CommaAlone>> \o calls[2].inp)

\* A then B were normalized, A of two items without a trailing comma
C3_Witness ==
  /\ Len(calls) = 2
  /\ Len(calls[1].inp) = 3
  /\ ~IsComma(Last(calls[1].inp))
  /\ calls[2].inp # <<>>
  /\ calls[1].pre # <<>>

\* separator marks and fragments alternate, a fragment first
Alternates(s) ==
  /\ s # <<>> => ~IsComma(s[1])
  /\ \A i \in 1..(Len(s) - 1) : IsComma(s[i]) # IsComma(s[i + 1])

\* an expression list: items (one Literal or Group each) separated by
\* commas, with or without a trailing comma
IsExprList(s) ==
  /\ Alternates(s)
  /\ \A i \in 1..Len(s) : ~IsComma(s[i]) => s[i].k \in {"Literal", "Group"}

EndsInOneSep(s) ==
  /\ EndsInSep(s)
  /\ Len(s) >= 2 => ~IsComma(s[Len(s) - 1])

\* C4 as stated: for an expression-list input (and an accumulator that
\* alternates), the output alternates and ends in exactly one separator.
C4_AlternatesAndEndsInSep ==
  (calls # <<>> /\ IsExprList(LastCall.inp) /\ Alternates(LastCall.pre)) =>
    /\ Alternates(acc)
    /\ EndsInOneSep(acc)

\* C4 amended: the output alternates and, when it is not empty, ends in
\* exactly one separator (empty accumulator and zero items give empty).
C4_AlternatesAndEndsInSepIfNonEmpty ==
  (calls # <<>> /\ IsExprList(LastCall.inp) /\ Alternates(LastCall.pre)) =>
    /\ Alternates(acc)
    /\ acc # <<>> => EndsInOneSep(acc)
    /\ acc = <<>> <=> (LastCall.pre = <<>> /\ LastCall.inp = <<>>)

\* a list of two items with a trailing comma went after a header
C4_Witness ==
  /\ calls # <<>>
  /\ IsExprList(LastCall.inp)
  /\ Len(LastCall.inp) = 4
  /\ Alternates(LastCall.pre)
  /\ LastCall.pre # <<>>

\* C5 as stated: an empty input leaves the trailing-separator state as it
\* was, and an empty accumulator empty.
C5_EmptyInputKeepsSepState ==
  (calls # <<>> /\ LastCall.inp = <<>>) =>
    /\ EndsInSep(acc) <=> EndsInSep(LastCall.pre)
    /\ LastCall.pre = <<>> => acc = <<>>

\* C5 amended: an empty input leaves an accumulator that is empty or ends in
\* a separator unchanged; to any other accumulator it appends the triple.
C5_EmptyInputOnlyPreCheck ==
  (calls # <<>> /\ LastCall.inp = <<>>) =>
    IF LastCall.pre = <<>> \/ EndsInSep(LastCall.pre)
    THEN acc = LastCall.pre
    ELSE /\ Len(acc) = Len(LastCall.pre) + 3
         /\ SubSeq(acc, 1, Len(LastCall.pre)) = LastCall.pre
         /\ TripleAt(acc, Len(LastCall.pre) + 1)

\* an empty input met a header that had no separator after it
C5_Witness ==
  /\ calls # <<>>
  /\ LastCall.inp = <<>>
  /\ LastCall.pre = <<Code32>>
  /\ Len(acc) = 4

(***************************************************************************)
(* Claims about the label allocator, checked under SpecLabel.              *)
(***************************************************************************)
Pending == {t \in Threads : th[t].pc = "fetched"}

\* the counter values the calls so far have observed
Observed == {r.n : r \in issued} \cup {th[t].val : t \in Pending}

\* C6: the labels returned by any number of sequential or concurrent calls,
\* from either macro, are pairwise distinct; no two calls observe the same
\* counter value, and all values come from the one counter.
C6_LabelsDistinct ==
  /\ Cardinality({r.label : r \in issued}) = returns
  /\ Cardinality(Observed) = returns + Cardinality(Pending)
  /\ Observed = 0..(NEXT - 1)

\* two threads are inside next_local_label at once, one for each macro, after
\* other calls have returned
C6_Witness ==
  /\ returns >= 2
  /\ \E t, u \in Threads :
       /\ th[t].pc = "fetched" /\ th[t].macro = "when"
       /\ th[u].pc = "fetched" /\ th[u].macro = "a32_fake_blx"

IsDigit(c) == \E d \in 1..10 : DigitChars[d] = c

DigitValue(c) == (CHOOSE d \in 1..10 : DigitChars[d] = c) - 1

\* the number a string of decimal digits writes
RECURSIVE ParseDecimal(_)
ParseDecimal(ds) ==
  IF ds = <<>> THEN 0
  ELSE 10 * ParseDecimal(SubSeq(ds, 1, Len(ds) - 1)) + DigitValue(Last(ds))

HasLabelPrefix(l) ==
  /\ Len(l) > Len(LabelPrefix)
  /\ SubSeq(l, 1, Len(LabelPrefix)) = LabelPrefix
  /\ \A i \in (Len(LabelPrefix) + 1)..Len(l) : IsDigit(l[i])

LabelNumber(l) == ParseDecimal(SubSeq(l, Len(LabelPrefix) + 1, Len(l)))

\* a label is the prefix and then the plain decimal form of n
IsLabelOf(l, n) ==
  /\ HasLabelPrefix(l)
  /\ LabelNumber(l) = n
  /\ (l[Len(LabelPrefix) + 1] = "0") => Len(l) = Len(LabelPrefix) + 1

\* the counter is the number of calls made: zero at first, one more per call
C7_CounterCountsCalls ==
  /\ NEXT = returns + Cardinality(Pending)
  /\ \A r \in issued : IsLabelOf(r.label, r.n)

\* a call returns in thread t after an earlier call of t returned: the two
\* labels differ only in the integer, and the later integer is greater
C7_LaterLabelGreater ==
  \A t \in Threads :
    (th[t].pc = "fetched" /\ th'[t].pc = "idle" /\ th[t].last # NoLabel) =>
      /\ HasLabelPrefix(th[t].last)
      /\ HasLabelPrefix(th'[t].last)
      /\ LabelNumber(th'[t].last) > LabelNumber(th[t].last)

\* C7: a label is the fixed prefix followed by the counter value; the counter
\* starts at zero, goes up by exactly one per call and never down, and of two
\* sequential calls the later returns the greater integer after the same
\* prefix.
C7_PrefixAndCounter ==
  /\ []C7_CounterCountsCalls
  /\ [][NEXT' = NEXT \/ NEXT' = NEXT + 1]_vars
  /\ [][C7_LaterLabelGreater]_vars

\* one thread made every call, one after the other, up to a two-digit label
C7_Witness ==
  \E t \in Threads :
    /\ returns = MaxLabels
    /\ \A u \in Threads \ {t} : th[u].last = NoLabel
    /\ th[t].last = LabelPrefix \o <<"1", "0">>
    /\ [n |-> 0, label |-> LabelPrefix \o <<"0">>] \in issued

(***************************************************************************)
(* Claims about the conditional-block builder, checked under SpecWhen.     *)
(***************************************************************************)
\* when_impl ran on a stream of two groups: a test and a body
WhenRan ==
  /\ whenOut.status # "none"
  /\ Len(whenIn) = 2
  /\ whenIn[1].k = "Group"
  /\ whenIn[2].k = "Group"

WhenTest == whenIn[1].stream
WhenBody == whenIn[2].stream

\* the table of the specification: the operator as the lexer hands it over
\* and the skip condition
CondTable ==
  << [op |-> <<Punct("=", "Joint"), Punct("=", "Alone")>>,
      cond |-> <<"n", "e">>],
     [op |-> <<Punct("!", "Joint"), Punct("=", "Alone")>>,
      cond |-> <<"e", "q">>],
     [op |-> <<Punct(">", "Joint"), Punct("=", "Alone"), Ident(<<"u">>)>>,
      cond |-> <<"l", "o">>],
     [op |-> <<Punct("<", "Joint"), Punct("=", "Alone"), Ident(<<"u">>)>>,
      cond |-> <<"h", "i">>],
     [op |-> <<Punct("<", "Alone"), Ident(<<"u">>)>>,
      cond |-> <<"h", "s">>],
     [op |-> <<Punct(">", "Alone"), Ident(<<"u">>)>>,
      cond |-> <<"l", "s">>],
     [op |-> <<Punct(">", "Joint"), Punct("=", "Alone"), Ident(<<"i">>)>>,
      cond |-> <<"l", "t">>],
     [op |-> <<Punct("<", "Joint"), Punct("=", "Alone"), Ident(<<"i">>)>>,
      cond |-> <<"g", "t">>],
     [op |-> <<Punct("<", "Alone"), Ident(<<"i">>)>>,
      cond |-> <<"g", "e">>],
     [op |-> <<Punct(">", "Alone"), Ident(<<"i">>)>>,
      cond |-> <<"l", "e">>] >>

\* test is `lhs op rhs` for row `row` of the table, lhs and rhs literals
IsTableShape(test, row) ==
  /\ Len(test) = Len(CondTable[row].op) + 2
  /\ test[1].k = "Literal"
  /\ Last(test).k = "Literal"
  /\ SubSeq(test, 2, Len(test) - 1) = CondTable[row].op

TableRows(test) == {row \in 1..Len(CondTable) : IsTableShape(test, row)}

\* C8: each of the ten shapes resolves to the inverted condition of its table
\* row, and no test matches two arms.
C8_InvertedCondition ==
  WhenRan =>
    /\ \A row \in TableRows(WhenTest) :
         /\ whenOut.status = "ok"
         /\ whenOut.cond = CondTable[row].cond
    /\ Cardinality(MatchingArms([i \in 1..Len(WhenTest) |->
                                   EzFrom(WhenTest[i])])) <= 1
    /\ whenOut.status = "ok" => Cardinality(TableRows(WhenTest)) = 1

\* `>=u` between two literals resolved to lo
C8_Witness ==
  /\ WhenRan
  /\ IsTableShape(WhenTest, 3)
  /\ whenOut.cond = <<"l", "o">>

\* text occurs in msg
Contains(msg, text) ==
  \E k \in 0..(Len(msg) - Len(text)) :
    SubSeq(msg, k + 1, k + Len(text)) = text

TokenText(tok) ==
  CASE tok.k = "Literal" -> tok.text
    [] tok.k = "Ident" -> tok.name
    [] tok.k = "Punct" -> <<tok.ch>>
    [] OTHER -> <<>>

MalformedComparison ==
  <<"m", "a", "l", "f", "o", "r", "m", "e", "d", " ", "c", "o",
    "m", "p", "a", "r", "i", "s", "o", "n", " ", "e", "x", "p",
    "r", "e", "s", "s", "i", "o", "n">>

RECURSIVE Unescape(_)
Unescape(str) ==
  IF str = <<>> THEN <<>>
  ELSE IF Head(str) = "\\" /\ Len(str) >= 2
       THEN <<IF str[2] = "n" THEN "\n" ELSE str[2]>>
              \o Unescape(SubSeq(str, 3, Len(str)))
       ELSE <<Head(str)>> \o Unescape(Tail(str))

IsQuoted(text) ==
  Len(text) >= 2 /\ Head(text) = "\"" /\ Last(text) = "\""

\* the text of an operand without its quotes
Unquoted(text) ==
  IF IsQuoted(text) THEN SubSeq(text, 2, Len(text) - 1) ELSE text

\* what concat! makes of one literal
LiteralValue(tok) ==
  IF Head(tok.text) \in {"\"", "'"}
  THEN Unescape(SubSeq(tok.text, 2, Len(tok.text) - 1))
  ELSE tok.text

\* concat! takes literals separated by commas
ConcatAccepts(toks) ==
  /\ Alternates(toks)
  /\ \A i \in 1..Len(toks) : ~IsComma(toks[i]) => toks[i].k = "Literal"

\* the string concat!(toks) evaluates to
RECURSIVE ConcatText(_)
ConcatText(toks) ==
  IF toks = <<>> THEN <<>>
  ELSE IF IsComma(Head(toks)) THEN ConcatText(Tail(toks))
  ELSE LiteralValue(Head(toks)) \o ConcatText(Tail(toks))

\* a body of string items, with or without a trailing comma
IsStringList(body) ==
  /\ Alternates(body)
  /\ \A i \in 1..Len(body) :
       ~IsComma(body[i]) => (body[i].k = "Literal" /\ IsQuoted(body[i].text))

\* each item of the body followed by a line break
RECURSIVE BodyLines(_)
BodyLines(body) ==
  IF body = <<>> THEN <<>>
  ELSE IF IsComma(Head(body)) THEN BodyLines(Tail(body))
  ELSE LiteralValue(Head(body)) \o <<"\n">> \o BodyLines(Tail(body))

ItemCount(body) == Cardinality({i \in 1..Len(body) : ~IsComma(body[i])})

LineBreaks(text) == Cardinality({i \in 1..Len(text) : text[i] = "\n"})

\* the expansion was concat ! ( out_buffer )
WhenOutBuffer == whenOut.tokens[3].stream

\* C10: for a recognized test and a body of n string items the joined output
\* is exactly `cmp <lhs>, <rhs>\n`, `b<cond> <label>\n`, each item and `\n`,
\* `<label>:\n`, the operands without their quotes: n + 3 lines.
C10_ExactText ==
  (WhenRan /\ TableRows(WhenTest) # {} /\ IsStringList(WhenBody)) =>
    /\ whenOut.status = "ok"
    /\ ConcatAccepts(WhenOutBuffer)
    /\ ConcatText(WhenOutBuffer) =
         <<"c", "m", "p", " ">> \o Unquoted(WhenTest[1].text) \o <<",", " ">>
           \o Unquoted(Last(WhenTest).text) \o <<"\n">>
           \o <<"b">> \o whenOut.cond \o <<" ">> \o whenOut.label \o <<"\n">>
           \o BodyLines(WhenBody)
           \o whenOut.label \o <<":", "\n">>
    /\ LineBreaks(ConcatText(WhenOutBuffer)) = ItemCount(WhenBody) + 3

(***************************************************************************)
(* The builders that take one token stream and give one expansion.  Each   *)
(* expansion is logged with the macro, its input and what came of it.      *)
(***************************************************************************)
\* the expansion succeeded with these tokens
Expanded(tokens) ==
  [status |-> "ok", msg |-> <<>>, tokens |-> tokens, allocated |-> FALSE]

\* the expansion aborted: panic!, expect or assert! with this message
Panicked(msg) ==
  [status |-> "panic", msg |-> msg, tokens |-> <<>>, allocated |-> FALSE]

\* concat ! ( out_buffer )
ConcatExpr(out_buffer) ==
  <<Ident(<<"c", "o", "n", "c", "a", "t">>), Punct("!", "Alone"),
    Group("Parenthesis", out_buffer)>>

\* mutant: the closing directive without its line break
Code16NoNewline == LiteralString(<<".", "c", "o", "d", "e", " ", "1", "6">>)

\* Literal::string(".code 16\n")
Code16 == LiteralString(<<".", "c", "o", "d", "e", " ", "1", "6", "\n">>)

\* t32_with_an_a32_scope_impl.rs 3-22
t32_with_an_a32_scope_impl(token_stream) ==
  LET out_buffer == extend_concat_as_lines(<<Code32, CommaAlone>>,
                                           token_stream)
  IN Expanded(ConcatExpr(Append(out_buffer, Code16)))

\* a32_within_t32_impl.rs 3-22, the same body under the older name
a32_within_t32_impl(token_stream) ==
  LET out_buffer == extend_concat_as_lines(<<Code32, CommaAlone>>,
                                           token_stream)
  IN Expanded(ConcatExpr(Append(out_buffer, Code16)))

\* one iteration of the loop written out in lib.rs 157-174
InlineLoopStep(out_buffer, token_tree) ==
  IF token_tree.k = "Punct" /\ token_tree.ch = ","
  THEN out_buffer \o <<CommaAlone, NewlineChar, CommaAlone>>
  ELSE Append(out_buffer, token_tree)

\* the loop of lib.rs 157-174
RECURSIVE InlineForLoop(_, _)
InlineForLoop(out_buffer, token_stream) ==
  IF token_stream = <<>> THEN out_buffer
  ELSE InlineForLoop(InlineLoopStep(out_buffer, Head(token_stream)),
                     Tail(token_stream))

\* mutant: the fix-up before `.code 16` is left out
InlineFixUpSkipped(out_buffer) == out_buffer

\* the fix-up of lib.rs 177-181: out_buffer.last().unwrap() is not a `,`
InlineFixUp(out_buffer) ==
  IF ~(Last(out_buffer).k = "Punct" /\ Last(out_buffer).ch = ",")
  THEN out_buffer \o <<CommaAlone, NewlineChar, CommaAlone>>
  ELSE out_buffer

\* the proc macro a32_within_t32 of lib.rs 146-194
a32_within_t32(token_stream) ==
  LET out_buffer ==
        InlineFixUp(InlineForLoop(<<Code32, CommaAlone>>, token_stream))
  IN Expanded(ConcatExpr(Append(out_buffer, Code16)))

ScopeMacros ==
  {"t32_with_an_a32_scope_impl", "a32_within_t32_impl", "a32_within_t32"}

ScopeExpansion(macro, token_stream) ==
  IF macro = "t32_with_an_a32_scope_impl"
  THEN t32_with_an_a32_scope_impl(token_stream)
  ELSE IF macro = "a32_within_t32_impl"
  THEN a32_within_t32_impl(token_stream)
  ELSE a32_within_t32(token_stream)

\* the bodies handed to the scope builders
ScopeBodies == WhenBodies

\* the macro expanded, with its input and its outcome
Logged(macro, token_stream, out) ==
  /\ log' = Append(log, [macro |-> macro, stream |-> token_stream,
                         out |-> out])
  /\ NEXT' = IF out.allocated THEN FetchAdd(NEXT) ELSE NEXT
  /\ UNCHANGED <<normVars, th, issued, returns, whenVars>>

\* one expansion of a scope builder; one expansion is observed in a behaviour
Scope(macro, token_stream) ==
  /\ log = <<>>
  /\ Logged(macro, token_stream, ScopeExpansion(macro, token_stream))

(***************************************************************************)
(* one_str_literal_or_panic and the builders of one instruction line.      *)
(***************************************************************************)
\* util.rs 5
NOT_ENOUGH_INPUT ==
  <<"N", "o", "t", " ", "e", "n", "o", "u", "g", "h", " ", "i", "n", "p",
    "u", "t">>
\* util.rs 6
ONE_STR_ONLY ==
  <<"P", "r", "o", "v", "i", "d", "e", " ", "o", "n", "e", " ", "s", "t",
    "r", "i", "n", "g", " ", "l", "i", "t", "e", "r", "a", "l", " ", "o",
    "n", "l", "y", ".">>

None == [some |-> FALSE]
Some(v) == [some |-> TRUE, v |-> v]

\* util.rs 59-73: the text of a literal that starts and ends with `"`, less
\* its first and last character
get_str_literal_content(tree) ==
  IF tree.k = "Literal"
  THEN IF Head(tree.text) = "\"" /\ Last(tree.text) = "\""
       THEN Some(SubSeq(tree.text, 2, Len(tree.text) - 1))
       ELSE None
  ELSE None

\* util.rs 75-82: Some(content), or the message of the panic in `err`
one_str_literal_or_panic(token_stream) ==
  IF token_stream = <<>> THEN [some |-> FALSE, err |-> NOT_ENOUGH_INPUT]
  ELSE IF ~get_str_literal_content(token_stream[1]).some
  THEN [some |-> FALSE, err |-> ONE_STR_ONLY]
  ELSE IF Len(token_stream) > 1 THEN [some |-> FALSE, err |-> ONE_STR_ONLY]
  ELSE get_str_literal_content(token_stream[1])

\* a32_read_spsr_to_impl.rs 3-9
a32_read_spsr_to_impl(token_stream) ==
  LET reg_name == one_str_literal_or_panic(token_stream)
  IN IF ~reg_name.some THEN Panicked(reg_name.err)
     ELSE Expanded(<<LiteralString(<<"m", "r", "s", " ">> \o reg_name.v
                       \o <<",", " ", "S", "P", "S", "R">>)>>)

\* a32_write_spsr_from_impl.rs 3-9
a32_write_spsr_from_impl(token_stream) ==
  LET reg_name == one_str_literal_or_panic(token_stream)
  IN IF ~reg_name.some THEN Panicked(reg_name.err)
     ELSE Expanded(<<LiteralString(<<"m", "s", "r", " ">> \o reg_name.v
                       \o <<",", " ", "S", "P", "S", "R">>)>>)

SpsrMacros == {"a32_read_spsr_to_impl", "a32_write_spsr_from_impl"}

SpsrExpansion(macro, token_stream) ==
  IF macro = "a32_read_spsr_to_impl"
  THEN a32_read_spsr_to_impl(token_stream)
  ELSE a32_write_spsr_from_impl(token_stream)

\* "{temp}", the_tests.rs 12
LitTemp == Literal(<<"\"", "{", "t", "e", "m", "p", "}", "\"">>)

\* the register operands of the unit tests, the_tests.rs 9-12: "r0", "R0",
\* "lr", "{temp}"; the program counter by its two names, "r15" and "pc",
\* which mrs and msr do not take; and "x9", which names no register
RegisterLiterals ==
  {LitR0, Literal(<<"\"", "R", "0", "\"">>),
   Literal(<<"\"", "l", "r", "\"">>), LitTemp,
   Literal(<<"\"", "r", "1", "5", "\"">>),
   Literal(<<"\"", "p", "c", "\"">>),
   Literal(<<"\"", "x", "9", "\"">>)}

\* one string literal, and the streams one_str_literal_or_panic refuses:
\* nothing, something that is no string literal, more than one token
OneStrStreams ==
  {<<l>> : l \in RegisterLiterals}
  \cup {<<>>, <<LitNum0>>, <<IdentX>>, <<Group("Parenthesis", <<LitR0>>)>>,
        <<LitR0, CommaAlone>>, <<LitR0, LitTemp>>}

\* one expansion of a32_read_spsr_to! or a32_write_spsr_from!
Spsr(macro, token_stream) ==
  /\ log = <<>>
  /\ Logged(macro, token_stream, SpsrExpansion(macro, token_stream))

(***************************************************************************)
(* a32_fake_blx_impl, and behaviours of several expansions that take       *)
(* labels.                                                                 *)
(***************************************************************************)
\* mutant: every expansion formats the counter's first value
BlxLabelFirst(next) == FormatLabel(0)

\* let label = next_local_label(), a32_fake_blx_impl.rs 6
BlxLabel(next) == FormatLabel(next)

\* format!("adr lr, {label}\n    bx {reg_name}\n    {label}:"): the format
\* string runs over three source lines, a32_fake_blx_impl.rs 8-10
FormatBlx(label, reg_name) ==
  <<"a", "d", "r", " ", "l", "r", ",", " ">> \o label
    \o <<"\n", " ", " ", " ", " ", "b", "x", " ">> \o reg_name
    \o <<"\n", " ", " ", " ", " ">> \o label \o <<":">>

\* a32_fake_blx_impl.rs 3-12 when NEXT holds next
a32_fake_blx_impl(token_stream, next) ==
  LET reg_name == one_str_literal_or_panic(token_stream)
  IN IF ~reg_name.some THEN Panicked(reg_name.err)
     ELSE [status |-> "ok", msg |-> <<>>,
           tokens |-> <<LiteralString(FormatBlx(BlxLabel(next),
                                                reg_name.v))>>,
           allocated |-> TRUE]

\* the inputs of a32_fake_blx! in a behaviour of several expansions
BlxStreams == {<<LitR0>>, <<LitTemp>>, <<>>, <<IdentX>>}

\* the inputs of when! in a behaviour of several expansions: the tests of
\* the unit test, a test no arm matches, and no input at all
LabelWhenStreams ==
  {<<Group("Parenthesis", t), Group("Brace", <<LitAdd1, CommaAlone>>)>>
     : t \in UnitTests}
  \cup {<<Group("Parenthesis", <<LitR0, LitHash0>>),
          Group("Brace", <<LitAdd1, CommaAlone>>)>>,
        <<>>}

\* one expansion of a32_fake_blx!, in a behaviour of up to MaxExpansions
FakeBlx(token_stream) ==
  /\ Len(log) < MaxExpansions
  /\ Logged("a32_fake_blx", token_stream,
            a32_fake_blx_impl(token_stream, NEXT))

\* one expansion of when!
LabelWhen(token_stream) ==
  /\ Len(log) < MaxExpansions
  /\ Logged("when", token_stream, when_impl(token_stream, NEXT))

InitExpansions ==
  /\ InitLabelVars
  /\ InitWhenVars
  /\ acc = <<>>
  /\ calls = <<>>

NextExpansions ==
  \/ \E token_stream \in BlxStreams : FakeBlx(token_stream)
  \/ \E token_stream \in LabelWhenStreams : LabelWhen(token_stream)

SpecExpansions == InitExpansions /\ [][NextExpansions]_vars

(***************************************************************************)
(* a32_set_cpu_control_impl (a32_set_cpu_control_impl.rs 3-60), the same   *)
(* code as set_cpu_control_impl, and set_cpu_control of lib.rs 211-265,    *)
(* which differs in the separator it asks for.  An assert_eq! that fails   *)
(* panics with its custom message after the two values; the custom         *)
(* message is what is kept.                                                *)
(***************************************************************************)
\* the grave accent of the messages, a character a string of this notation
\* cannot hold
Backtick == "grave"

\* line 17, up to {other}
FirstArgumentGot ==
  <<"F", "i", "r", "s", "t", " ", "a", "r", "g", "u", "m", "e", "n",
    "t", " ", "m", "u", "s", "t", " ", "b", "e", " ", "a", " ", "v",
    "a", "l", "i", "d", " ", "c", "p", "u", " ", "m", "o", "d", "e",
    " ", "n", "a", "m", "e", ",", " ", "g", "o", "t", " ", Backtick>>
\* line 23
CommaAfterFirst ==
  <<"m", "u", "s", "t", " ", "h", "a", "v", "e", " ", "c", "o", "m",
    "m", "a", " ", "a", "f", "t", "e", "r", " ", "t", "h", "e", " ",
    "f", "i", "r", "s", "t", " ", "a", "r", "g">>
\* line 29
SecondSetting ==
  <<"s", "e", "c", "o", "n", "d", " ", "s", "e", "t", "t", "i", "n",
    "g", " ", "m", "u", "s", "t", " ", "b", "e", " ", Backtick, "i", "r",
    "q", "_", "m", "a", "s", "k", "e", "d", Backtick>>
\* lines 34, up to the separator
AfterIrqMasked ==
  <<"a", "f", "t", "e", "r", " ", Backtick, "i", "r", "q", "_", "m", "a",
    "s", "k", "e", "d", Backtick, " ", "m", "u", "s", "t", " ", "b", "e",
    " ", "a", " ", Backtick>>
\* line 37
IrqMaskedBool ==
  <<Backtick, "i", "r", "q", "_", "m", "a", "s", "k", "e", "d", Backtick, " ",
    "m", "u", "s", "t", " ", "b", "e", " ", "s", "e", "t", " ", "a",
    "s", " ", Backtick, "t", "r", "u", "e", Backtick, " ", "o", "r", " ", Backtick,
    "f", "a", "l", "s", "e", Backtick>>
\* line 41
CommaAfterSecond ==
  <<"m", "u", "s", "t", " ", "h", "a", "v", "e", " ", "c", "o", "m",
    "m", "a", " ", "a", "f", "t", "e", "r", " ", "t", "h", "e", " ",
    "s", "e", "c", "o", "n", "d", " ", "a", "r", "g">>
\* line 47
ThirdSetting ==
  <<"t", "h", "i", "r", "d", " ", "s", "e", "t", "t", "i", "n", "g",
    " ", "m", "u", "s", "t", " ", "b", "e", " ", Backtick, "f", "i", "q",
    "_", "m", "a", "s", "k", "e", "d", Backtick>>
\* line 52, up to the separator
AfterFiqMasked ==
  <<"a", "f", "t", "e", "r", " ", Backtick, "f", "i", "q", "_", "m", "a",
    "s", "k", "e", "d", Backtick, " ", "m", "u", "s", "t", " ", "b", "e",
    " ", "a", " ", Backtick>>
\* line 55
FiqMaskedBool ==
  <<Backtick, "f", "i", "q", "_", "m", "a", "s", "k", "e", "d", Backtick, " ",
    "m", "u", "s", "t", " ", "b", "e", " ", "s", "e", "t", " ", "a",
    "s", " ", Backtick, "t", "r", "u", "e", Backtick, " ", "o", "r", " ", Backtick,
    "f", "a", "l", "s", "e", Backtick>>
\* line 58
MsrPrefix ==
  <<"m", "s", "r", " ", "C", "P", "S", "R", "_", "c", ",", " ", "#",
    "0", "b">>

\* Display of a delimiter, opening and closing; Delimiter::None prints nothing
OpenOf(delim) ==
  IF delim = "Parenthesis" THEN <<"(">>
  ELSE IF delim = "Brace" THEN <<"{">>
  ELSE IF delim = "Bracket" THEN <<"[">>
  ELSE <<>>

CloseOf(delim) ==
  IF delim = "Parenthesis" THEN <<")">>
  ELSE IF delim = "Brace" THEN <<"}">>
  ELSE IF delim = "Bracket" THEN <<"]">>
  ELSE <<>>

\* TokenTree::to_string: the name of an Ident, the character of a Punct,
\* the text of a Literal, and for a Group its delimiters around its tokens
\* (printed here without blanks between them)
RECURSIVE TokenToString(_)
TokenToString(tree) ==
  IF tree.k = "Ident" THEN tree.name
  ELSE IF tree.k = "Punct" THEN <<tree.ch>>
  ELSE IF tree.k = "Literal" THEN tree.text
  ELSE LET RECURSIVE Inner(_)
           Inner(stream) ==
             IF stream = <<>> THEN <<>>
             ELSE TokenToString(Head(stream)) \o Inner(Tail(stream))
       IN OpenOf(tree.delim) \o Inner(tree.stream) \o CloseOf(tree.delim)

\* util.rs 47-56
get_bool(tree) ==
  IF tree.k = "Ident"
  THEN IF tree.name = <<"t", "r", "u", "e">> THEN Some(TRUE)
       ELSE IF tree.name = <<"f", "a", "l", "s", "e">> THEN Some(FALSE)
       ELSE None
  ELSE None

\* `as u8` of a bool
BoolAsU8(b) == IF b THEN 1 ELSE 0

\* the match of lines 10-19: the mode bits of a mode name, None for `other`
ModeBits(name) ==
  IF name \in {<<"U", "s", "e", "r">>, <<"u", "s", "r">>}
  THEN Some(<<"1", "0", "0", "0", "0">>)
  ELSE IF name \in {<<"F", "I", "Q">>, <<"f", "i", "q">>}
  THEN Some(<<"1", "0", "0", "0", "1">>)
  ELSE IF name \in {<<"I", "R", "Q">>, <<"i", "r", "q">>}
  THEN Some(<<"1", "0", "0", "1", "0">>)
  ELSE IF name \in {<<"S", "u", "p", "e", "r", "v", "i", "s", "o", "r">>,
                    <<"s", "v", "c">>}
  THEN Some(<<"1", "0", "0", "1", "1">>)
  ELSE IF name \in {<<"S", "y", "s", "t", "e", "m">>, <<"s", "y", "s">>}
  THEN Some(<<"1", "1", "1", "1", "1">>)
  ELSE None

\* mutant: the two mask bits change places
FormatMsrSwapped(i, f, mode) ==
  MsrPrefix \o Decimal(f) \o Decimal(i) \o <<"0">> \o mode

\* format!("msr CPSR_c, #0b{i}{f}0{mode}"), line 58
FormatMsr(i, f, mode) ==
  MsrPrefix \o Decimal(i) \o Decimal(f) \o <<"0">> \o mode

IrqMaskedName == <<"i", "r", "q", "_", "m", "a", "s", "k", "e", "d">>
FiqMaskedName == <<"f", "i", "q", "_", "m", "a", "s", "k", "e", "d">>

\* the body the three builders share, sep the separator asked for after a
\* setting name.  Every next() is followed by expect("too few tokens"); that
\* message and "too many tokens" are the texts when_impl uses too.
cpu_control(token_stream, sep) ==
  LET n == Len(token_stream)
      str(p) == TokenToString(token_stream[p])
  IN IF n < 1 THEN Panicked(TooFewTokens)
     ELSE IF ~ModeBits(str(1)).some
     THEN Panicked(FirstArgumentGot \o str(1) \o <<Backtick>>)
     ELSE IF n < 2 THEN Panicked(TooFewTokens)
     ELSE IF str(2) # <<",">> THEN Panicked(CommaAfterFirst)
     ELSE IF n < 3 THEN Panicked(TooFewTokens)
     ELSE IF str(3) # IrqMaskedName THEN Panicked(SecondSetting)
     ELSE IF n < 4 THEN Panicked(TooFewTokens)
     ELSE IF str(4) # <<sep>>
     THEN Panicked(AfterIrqMasked \o <<sep, Backtick>>)
     ELSE IF n < 5 THEN Panicked(TooFewTokens)
     ELSE IF ~get_bool(token_stream[5]).some THEN Panicked(IrqMaskedBool)
     ELSE IF n < 6 THEN Panicked(TooFewTokens)
     ELSE IF str(6) # <<",">> THEN Panicked(CommaAfterSecond)
     ELSE IF n < 7 THEN Panicked(TooFewTokens)
     ELSE IF str(7) # FiqMaskedName THEN Panicked(ThirdSetting)
     ELSE IF n < 8 THEN Panicked(TooFewTokens)
     ELSE IF str(8) # <<sep>>
     THEN Panicked(AfterFiqMasked \o <<sep, Backtick>>)
     ELSE IF n < 9 THEN Panicked(TooFewTokens)
     ELSE IF ~get_bool(token_stream[9]).some THEN Panicked(FiqMaskedBool)
     ELSE IF n > 9 THEN Panicked(TooManyTokens)
     ELSE LET mode == ModeBits(str(1)).v
              i == BoolAsU8(get_bool(token_stream[5]).v)
              f == BoolAsU8(get_bool(token_stream[9]).v)
          IN Expanded(<<LiteralString(FormatMsr(i, f, mode))>>)

\* a32_set_cpu_control_impl.rs 3-60
a32_set_cpu_control_impl(token_stream) == cpu_control(token_stream, "=")

\* set_cpu_control_impl.rs 3-57
set_cpu_control_impl(token_stream) == cpu_control(token_stream, "=")

\* lib.rs 211-265
set_cpu_control(token_stream) == cpu_control(token_stream, ":")

CpuMacros ==
  {"a32_set_cpu_control_impl", "set_cpu_control_impl", "set_cpu_control"}

CpuExpansion(macro, token_stream) ==
  IF macro = "a32_set_cpu_control_impl"
  THEN a32_set_cpu_control_impl(token_stream)
  ELSE IF macro = "set_cpu_control_impl"
  THEN set_cpu_control_impl(token_stream)
  ELSE set_cpu_control(token_stream)

\* the separator a builder asks for
SeparatorOf(macro) == IF macro = "set_cpu_control" THEN ":" ELSE "="

\* the long and the short name of the five modes
ModeNames ==
  {<<"U", "s", "e", "r">>, <<"u", "s", "r">>, <<"F", "I", "Q">>,
   <<"f", "i", "q">>, <<"I", "R", "Q">>, <<"i", "r", "q">>,
   <<"S", "u", "p", "e", "r", "v", "i", "s", "o", "r">>, <<"s", "v", "c">>,
   <<"S", "y", "s", "t", "e", "m">>, <<"s", "y", "s">>}

\* first tokens: the mode names, names of no mode (a mode the table lacks,
\* a mode name in another case), and a mode name written as a string
ModeTokens ==
  {Ident(m) : m \in ModeNames}
  \cup {Ident(<<"A", "b", "o", "r", "t">>), Ident(<<"u", "s", "e", "r">>),
        Ident(<<"S", "Y", "S">>),
        Literal(<<"\"", "U", "s", "e", "r", "\"">>)}

\* setting values: the two booleans, another identifier, a number
BoolTokens ==
  {Ident(<<"t", "r", "u", "e">>), Ident(<<"f", "a", "l", "s", "e">>),
   Ident(<<"y", "e", "s">>), LitNum0}

\* mode, irq_masked <sep> i, fiq_masked <sep> f
CpuShape(mode, sep, i, f) ==
  <<mode, CommaAlone, Ident(IrqMaskedName), Punct(sep, "Alone"), i,
    CommaAlone, Ident(FiqMaskedName), Punct(sep, "Alone"), f>>

\* the input of the first unit test, the_tests.rs 63
CpuUnitTest ==
  CpuShape(Ident(<<"S", "y", "s", "t", "e", "m">>), "=",
           Ident(<<"f", "a", "l", "s", "e">>),
           Ident(<<"f", "a", "l", "s", "e">>))

\* every well-shaped input in both separators; the unit test cut short
\* after each token, or with one token more, or with one token replaced
CpuStreams ==
  {CpuShape(mode, sep, i, f) :
     mode \in ModeTokens, sep \in {"=", ":"}, i \in BoolTokens,
     f \in BoolTokens}
  \cup {SubSeq(CpuUnitTest, 1, n) : n \in 0..Len(CpuUnitTest)}
  \cup {Append(CpuUnitTest, CommaAlone)}
  \cup {[CpuUnitTest EXCEPT ![p] = Punct(";", "Alone")] :
          p \in 1..Len(CpuUnitTest)}
  \cup {[CpuUnitTest EXCEPT ![p] = Ident(FiqMaskedName)] :
          p \in 1..Len(CpuUnitTest)}

\* one expansion of a CPU-control builder
CpuControl(macro, token_stream) ==
  /\ log = <<>>
  /\ Logged(macro, token_stream, CpuExpansion(macro, token_stream))

(***************************************************************************)
(* From<EzTokenTree> for TokenTree, util.rs 112-128, and the round trip    *)
(* of a token through EzTokenTree.  A token read from source carries the   *)
(* span of its place there; Group::new, Punct::new and Literal::from_str   *)
(* make tokens whose span is Span::call_site().                            *)
(***************************************************************************)
\* a token with the span set, as Group::set_span and its likes do
WithSpan(tree, span) ==
  [x \in (DOMAIN tree) \cup {"span"} |->
     IF x = "span" THEN span ELSE tree[x]]

IdentStart ==
  {"a", "b", "c", "d", "e", "f", "g", "h", "i", "j", "k", "l", "m", "n",
   "o", "p", "q", "r", "s", "t", "u", "v", "w", "x", "y", "z", "A", "B",
   "C", "D", "E", "F", "G", "H", "I", "J", "K", "L", "M", "N", "O", "P",
   "Q", "R", "S", "T", "U", "V", "W", "X", "Y", "Z", "_"}

DecimalDigits == {"0", "1", "2", "3", "4", "5", "6", "7", "8", "9"}

\* the strings Ident::new takes: a letter or `_`, then letters, digits and
\* `_` (ASCII only here).  The `r#` of a raw identifier is not part of an
\* identifier: Ident::new_raw is the constructor that makes one.
IsValidIdent(string) ==
  /\ string # <<>>
  /\ Head(string) \in IdentStart
  /\ \A p \in 1..Len(string) : string[p] \in IdentStart \cup DecimalDigits

\* the unwinding of a panic
Unwound == [k |-> "panic"]

\* Ident::new(&i, s): panics unless i is a valid identifier
IdentNew(string, span) ==
  IF IsValidIdent(string)
  THEN [k |-> "Ident", name |-> string, span |-> span]
  ELSE Unwound

\* the characters between the quotes hold no quote of their own that is not
\* escaped, and no escape is cut short by the closing quote
RECURSIVE WellEscaped(_, _)
WellEscaped(inner, quote) ==
  IF inner = <<>> THEN TRUE
  ELSE IF Head(inner) = "\\"
       THEN Len(inner) >= 2 /\ WellEscaped(SubSeq(inner, 3, Len(inner)), quote)
       ELSE Head(inner) # quote /\ WellEscaped(Tail(inner), quote)

\* the texts Literal::from_str parses as one literal: a string, a character
\* or a number with or without suffix
IsLiteralText(l) ==
  /\ l # <<>>
  /\ \/ /\ Len(l) >= 2
        /\ Head(l) \in {"\"", "'"}
        /\ Last(l) = Head(l)
        /\ WellEscaped(SubSeq(l, 2, Len(l) - 1), Head(l))
     \/ /\ Head(l) \in DecimalDigits
        /\ \A p \in 1..Len(l) : l[p] \in IdentStart \cup DecimalDigits \cup {"."}

\* Literal::from_str(&l).unwrap()
LiteralFromStr(l) ==
  IF IsLiteralText(l) THEN WithSpan(Literal(l), "call_site") ELSE Unwound

\* impl From<EzTokenTree> for TokenTree
RECURSIVE TokenFrom(_)
TokenFrom(value) ==
  CASE value.ez = "EzGroup" ->
         LET trees == [p \in 1..Len(value.trees) |->
                         TokenFrom(value.trees[p])]
         IN IF \E p \in 1..Len(trees) : trees[p] = Unwound THEN Unwound
            ELSE WithSpan(Group(value.delim, trees), "call_site")
    [] value.ez = "EzId" -> IdentNew(value.s, value.span)
    [] value.ez = "EzPu" -> WithSpan(Punct(value.ch, value.sp), "call_site")
    [] value.ez = "EzLi" -> LiteralFromStr(value.s)

\* a token to EzTokenTree and back
RoundTripOf(tree) ==
  LET ez == EzFrom(tree)
      back == TokenFrom(ez)
  IN IF back = Unwound
     THEN [status |-> "panic", msg |-> <<>>, tokens |-> <<>>,
           allocated |-> FALSE, ez |-> ez]
     ELSE [status |-> "ok", msg |-> <<>>, tokens |-> <<back>>,
           allocated |-> FALSE, ez |-> ez]

Delimiters == {"Parenthesis", "Brace", "Bracket", "None"}

\* tokens that are no groups, each at a place of the source: identifiers (a
\* plain one, `_`, and `type` written raw, which Display prints as r#type),
\* punctuation with either spacing, literals (a
\* string, a string with an escaped quote, a character, numbers)
LeafTokens ==
  {WithSpan(t, "source") :
     t \in {IdentX, Ident(<<"_">>), Ident(<<"l", "r", "0">>),
            Ident(<<"r", "#", "t", "y", "p", "e">>),
            Punct(",", "Alone"), Punct(",", "Joint"), Punct("<", "Alone"),
            Punct("<", "Joint"), Punct("=", "Alone"),
            LitR0, Literal(<<"\"", "a", "\\", "\"", "b", "\"">>),
            NewlineChar, LitNum0, Literal(<<"1", "u", "8">>),
            Literal(<<"1", ".", "5">>)}}

\* tokens of nesting depth up to d: the leaves, the empty groups, and a
\* group of every delimiter around a token of depth d - 1, alone or before
\* a second child
RECURSIVE TokensOfDepth(_)
TokensOfDepth(d) ==
  IF d = 0 THEN LeafTokens
  ELSE LET inner == TokensOfDepth(d - 1)
           Sibling == WithSpan(Punct("=", "Joint"), "source")
       IN inner
            \cup {WithSpan(Group(delim, <<>>), "source") :
                    delim \in Delimiters}
            \cup {WithSpan(Group(delim, <<t>>), "source") :
                    delim \in Delimiters, t \in inner}
            \cup {WithSpan(Group(delim, <<t, Sibling>>), "source") :
                    delim \in Delimiters, t \in inner}

RawTokens == TokensOfDepth(MaxDepth)

\* one token is classified and materialized again
RoundTrip(tree) ==
  /\ log = <<>>
  /\ Logged("EzTokenTree", <<tree>>, RoundTripOf(tree))

NextEz == \E tree \in RawTokens : RoundTrip(tree)

SpecEz == InitExpansions /\ [][NextEz]_vars

\* one expansion of when!
WhenOnce(token_stream) ==
  /\ log = <<>>
  /\ Logged("when", token_stream, when_impl(token_stream, NEXT))

\* the expansion observed comes after 0..MaxPrior earlier label allocations
InitMacros ==
  /\ NEXT \in 0..MaxPrior
  /\ th = [t \in Threads |->
             [pc |-> "idle", macro |-> "none", val |-> 0, last |-> NoLabel]]
  /\ issued = {}
  /\ returns = 0
  /\ InitWhenVars
  /\ acc = <<>>
  /\ calls = <<>>

NextMacros ==
  \/ \E macro \in ScopeMacros, body \in ScopeBodies : Scope(macro, body)
  \/ \E macro \in SpsrMacros, token_stream \in OneStrStreams :
       Spsr(macro, token_stream)
  \/ \E macro \in CpuMacros, token_stream \in CpuStreams :
       CpuControl(macro, token_stream)
  \/ \E token_stream \in WhenStreams : WhenOnce(token_stream)

SpecMacros == InitMacros /\ [][NextMacros]_vars

(***************************************************************************)
(* Claims about the one-expansion builders, checked under SpecMacros.      *)
(***************************************************************************)
Expanding(macros) == log # <<>> /\ log[1].macro \in macros

\* the arguments of the concat! the expansion consists of
OutBuffer == log[1].out.tokens[3].stream

\* C11: for a body of n >= 0 string items the joined output of the
\* code-mode-scope builder is `.code 32\n`, each item followed by `\n`, then
\* `.code 16\n`; the empty body gives `.code 32\n.code 16\n`; a body with a
\* trailing comma gives the same output as the body without it.
C11_ScopeText ==
  (Expanding(ScopeMacros) /\ IsStringList(log[1].stream)) =>
    /\ log[1].out.status = "ok"
    /\ ConcatAccepts(OutBuffer)
    /\ ConcatText(OutBuffer) =
         <<".", "c", "o", "d", "e", " ", "3", "2", "\n">>
           \o BodyLines(log[1].stream)
           \o <<".", "c", "o", "d", "e", " ", "1", "6", "\n">>
    /\ log[1].stream = <<>> =>
         ConcatText(OutBuffer) =
           <<".", "c", "o", "d", "e", " ", "3", "2", "\n",
             ".", "c", "o", "d", "e", " ", "1", "6", "\n">>
    /\ (log[1].stream # <<>> /\ ~IsComma(Last(log[1].stream))) =>
         LET with_comma == ScopeExpansion(log[1].macro,
                                          Append(log[1].stream, CommaAlone))
         IN ConcatText(with_comma.tokens[3].stream) = ConcatText(OutBuffer)

C11_Witness ==
  /\ Expanding({"t32_with_an_a32_scope_impl"})
  /\ log[1].stream = <<LitAdd1, CommaAlone, LitAdd2>>
  /\ log[1].out.status = "ok"
  /\ ConcatAccepts(OutBuffer)

\* the register names the unit tests hand to the register-transfer builders
\* (the_tests.rs 9-12, 26-29); the program counter is none of them
ValidRegisterNames ==
  {<<"r", "0">>, <<"R", "0">>, <<"l", "r">>,
   <<"{", "t", "e", "m", "p", "}">>}

\* the input is one string literal
OneStringLiteral(token_stream) ==
  /\ Len(token_stream) = 1
  /\ token_stream[1].k = "Literal"
  /\ IsQuoted(token_stream[1].text)

SpsrMnemonic(macro) ==
  IF macro = "a32_read_spsr_to_impl" THEN <<"m", "r", "s">>
  ELSE <<"m", "s", "r">>

\* C12: the register-transfer builders reject a register name that is not
\* in the register validity list, such as r15: the expansion aborts and
\* emits nothing; an accepted name r yields exactly `mrs r, SPSR` (or
\* `msr r, SPSR`) with no trailing newline.
C12_RejectsInvalidRegister ==
  (Expanding(SpsrMacros) /\ OneStringLiteral(log[1].stream)) =>
    LET r == Unquoted(log[1].stream[1].text)
        out == log[1].out
    IN IF r \in ValidRegisterNames
       THEN /\ out.status = "ok"
            /\ Len(out.tokens) = 1
            /\ out.tokens[1].k = "Literal"
            /\ LiteralValue(out.tokens[1]) =
                 SpsrMnemonic(log[1].macro) \o <<" ">> \o r
                   \o <<",", " ", "S", "P", "S", "R">>
       ELSE /\ out.status = "panic"
            /\ out.tokens = <<>>

(***************************************************************************)
(* Claims about the labels of several expansions, checked under            *)
(* SpecExpansions.                                                         *)
(***************************************************************************)
\* the lines of a text: the pieces between its line breaks
RECURSIVE SplitLines(_)
SplitLines(text) ==
  IF \A i \in 1..Len(text) : text[i] # "\n" THEN <<text>>
  ELSE LET i == CHOOSE j \in 1..Len(text) :
                  text[j] = "\n" /\ \A m \in 1..(j - 1) : text[m] # "\n"
       IN <<SubSeq(text, 1, i - 1)>>
            \o SplitLines(SubSeq(text, i + 1, Len(text)))

\* a line without the blanks before it
RECURSIVE TrimStart(_)
TrimStart(line) ==
  IF line # <<>> /\ Head(line) = " " THEN TrimStart(Tail(line)) ELSE line

\* what follows the last blank of a line
RECURSIVE LastWord(_)
LastWord(line) ==
  IF \A i \in 1..Len(line) : line[i] # " " THEN line
  ELSE LastWord(Tail(line))

\* the assembly text the i-th expansion evaluates to
ExpansionText(i) ==
  IF log[i].macro = "a32_fake_blx" THEN LiteralValue(log[i].out.tokens[1])
  ELSE ConcatText(log[i].out.tokens[3].stream)

\* its lines, trimmed, the empty ones left out
ExpansionLines(i) ==
  LET lines == SplitLines(ExpansionText(i))
  IN SelectSeq([n \in 1..Len(lines) |-> TrimStart(lines[n])],
               LAMBDA l : l # <<>>)

Succeeded == {i \in 1..Len(log) : log[i].out.status = "ok"}

\* the label the `adr lr,` line or the branch line refers to
ReferencedLabel(i) ==
  LET lines == ExpansionLines(i)
  IN IF log[i].macro = "a32_fake_blx" THEN LastWord(lines[1])
     ELSE LastWord(lines[2])

\* the label the last line defines
DefinedLabel(i) ==
  LET last == Last(ExpansionLines(i))
  IN SubSeq(last, 1, Len(last) - 1)

\* the lines of the i-th expansion that define label l
DefinitionsOf(l, i) ==
  {n \in 1..Len(ExpansionLines(i)) : ExpansionLines(i)[n] = l \o <<":">>}

C13_OneLabelPerExpansion ==
  \A i \in Succeeded :
    /\ HasLabelPrefix(ReferencedLabel(i))
    /\ Last(Last(ExpansionLines(i))) = ":"
    /\ ReferencedLabel(i) = DefinedLabel(i)
    /\ Cardinality(DefinitionsOf(DefinedLabel(i), i)) = 1
    /\ \A j \in Succeeded \ {i} :
         /\ DefinitionsOf(DefinedLabel(i), j) = {}
         /\ ReferencedLabel(j) # DefinedLabel(i)

\* a successful expansion takes exactly one value of the counter
C13_OneAllocation ==
  (log' # log /\ Last(log').out.status = "ok") => NEXT' = NEXT + 1

\* C13: in every a32_fake_blx and every conditional-block expansion exactly
\* one label is allocated; the label the `adr lr,` / branch line refers to is
\* the same string as the label the final `<label>:` line defines; it is
\* defined exactly once in the output and no other expansion uses it.
C13_LabelConsistent ==
  /\ []C13_OneLabelPerExpansion
  /\ [][C13_OneAllocation]_vars

\* a32_fake_blx! and then when!, after an expansion that took a label and
\* then aborted
C13_Witness ==
  /\ Len(log) = MaxExpansions
  /\ log[1].macro = "when" /\ log[1].out.status = "panic"
  /\ NEXT > Cardinality(Succeeded)
  /\ \E i, j \in Succeeded :
       /\ log[i].macro = "a32_fake_blx"
       /\ log[j].macro = "when"
       /\ ReferencedLabel(i) # ReferencedLabel(j)

\* the five modes: long name, short name and the number of the mode in the
\* low five bits of CPSR
CpuModes ==
  {[long |-> <<"U", "s", "e", "r">>, short |-> <<"u", "s", "r">>,
    number |-> 16],
   [long |-> <<"F", "I", "Q">>, short |-> <<"f", "i", "q">>,
    number |-> 17],
   [long |-> <<"I", "R", "Q">>, short |-> <<"i", "r", "q">>,
    number |-> 18],
   [long |-> <<"S", "u", "p", "e", "r", "v", "i", "s", "o", "r">>,
    short |-> <<"s", "v", "c">>, number |-> 19],
   [long |-> <<"S", "y", "s", "t", "e", "m">>, short |-> <<"s", "y", "s">>,
    number |-> 31]}

\* the modes a first token names
ModesNamed(tree) ==
  {m \in CpuModes : tree.k = "Ident" /\ tree.name \in {m.long, m.short}}

\* n in binary on w digits
RECURSIVE Bits(_, _)
Bits(n, w) ==
  IF w = 0 THEN <<>>
  ELSE Bits(n \div 2, w - 1) \o <<IF n % 2 = 1 THEN "1" ELSE "0">>

IsBoolToken(tree) ==
  tree.k = "Ident"
    /\ tree.name \in {<<"t", "r", "u", "e">>, <<"f", "a", "l", "s", "e">>}

BitOf(tree) == IF tree.name = <<"t", "r", "u", "e">> THEN 1 ELSE 0

\* the input has the nine tokens of the form the builder documents:
\* mode, irq_masked <sep> value, fiq_masked <sep> value
HasCpuShape(macro, s) ==
  /\ Len(s) = 9
  /\ s = CpuShape(s[1], SeparatorOf(macro), s[5], s[9])

\* C14: for every valid mode name, long or short, and every pair of
\* booleans the CPU-control builder emits `msr CPSR_c, #0b` and 8 bits:
\* irq_masked, fiq_masked, a T bit that is 0, the mode's 5 bits (System,
\* false, false gives 00011111; Supervisor, true, false gives 10010011); the
\* long and the short name give the same output; another mode name, a
\* non-boolean value or a wrong token count aborts.
C14_ControlBits ==
  Expanding(CpuMacros) =>
    LET s == log[1].stream
        out == log[1].out
    IN IF HasCpuShape(log[1].macro, s) /\ ModesNamed(s[1]) # {}
            /\ IsBoolToken(s[5]) /\ IsBoolToken(s[9])
       THEN LET m == CHOOSE m \in ModesNamed(s[1]) : TRUE
                value == 128 * BitOf(s[5]) + 64 * BitOf(s[9]) + m.number
            IN /\ Cardinality(ModesNamed(s[1])) = 1
               /\ out.status = "ok"
               /\ Len(out.tokens) = 1
               /\ out.tokens[1].k = "Literal"
               /\ LiteralValue(out.tokens[1]) =
                    <<"m", "s", "r", " ", "C", "P", "S", "R", "_", "c", ",",
                      " ", "#", "0", "b">> \o Bits(value, 8)
               /\ \A name \in {m.long, m.short} :
                    CpuExpansion(log[1].macro,
                                 [s EXCEPT ![1] = Ident(name)]) = out
               /\ (m.number = 31 /\ BitOf(s[5]) = 0 /\ BitOf(s[9]) = 0) =>
                    LiteralValue(out.tokens[1]) =
                      <<"m", "s", "r", " ", "C", "P", "S", "R", "_", "c",
                        ",", " ", "#", "0", "b",
                        "0", "0", "0", "1", "1", "1", "1", "1">>
               /\ (m.number = 19 /\ BitOf(s[5]) = 1 /\ BitOf(s[9]) = 0) =>
                    LiteralValue(out.tokens[1]) =
                      <<"m", "s", "r", " ", "C", "P", "S", "R", "_", "c",
                        ",", " ", "#", "0", "b",
                        "1", "0", "0", "1", "0", "0", "1", "1">>
       ELSE /\ out.status = "panic"
            /\ out.tokens = <<>>

\* the second unit test, by the short name of the mode
C14_Witness ==
  /\ Expanding({"a32_set_cpu_control_impl"})
  /\ log[1].stream =
       CpuShape(Ident(<<"s", "v", "c">>), "=", Ident(<<"t", "r", "u", "e">>),
                Ident(<<"f", "a", "l", "s", "e">>))
  /\ log[1].out.status = "ok"

(***************************************************************************)
(* Claims about EzTokenTree, checked under SpecEz.                         *)
(***************************************************************************)
\* a token without its source positions, those of its children included
RECURSIVE ErasePositions(_)
ErasePositions(tree) ==
  IF tree.k = "Group"
  THEN [k |-> "Group", delim |-> tree.delim,
        stream |-> [p \in 1..Len(tree.stream) |->
                      ErasePositions(tree.stream[p])]]
  ELSE IF tree.k = "Ident" THEN [k |-> "Ident", name |-> tree.name]
  ELSE IF tree.k = "Punct"
  THEN [k |-> "Punct", ch |-> tree.ch, sp |-> tree.sp]
  ELSE [k |-> "Literal", text |-> tree.text]

\* the variant of a kind of token
VariantOf(k) ==
  IF k = "Group" THEN "EzGroup"
  ELSE IF k = "Ident" THEN "EzId"
  ELSE IF k = "Punct" THEN "EzPu"
  ELSE "EzLi"

\* C15: for every well-formed raw token t (a group of any delimiter and
\* nesting depth, an identifier, punctuation of either spacing, a literal)
\* classify yields exactly one of the four variants, and
\* materialize(classify(t)) equals t up to source positions.
C15_RoundTrip ==
  Expanding({"EzTokenTree"}) =>
    /\ log[1].out.ez.ez \in {"EzGroup", "EzId", "EzPu", "EzLi"}
    /\ log[1].out.ez.ez = VariantOf(log[1].stream[1].k)
    /\ log[1].out.status = "ok"
    /\ ErasePositions(log[1].out.tokens[1]) = ErasePositions(log[1].stream[1])

\* the buffer of an expansion before its last push, the footer
BeforeFooter == SubSeq(OutBuffer, 1, Len(OutBuffer) - 1)

\* the tokens the loop of an expansion ran over
LoopInput ==
  IF log[1].macro = "when" THEN log[1].stream[2].stream ELSE log[1].stream

\* C16: the comma-rewriting loop written out by hand with its trailing-comma
\* fix-up (a32_within_t32 in lib.rs, the body loop of the conditional-block
\* builder) gives, for every input token sequence, the very tokens that
\* extend_concat_as_lines gives on an accumulator that holds the same
\* header and then a separator.
C16_InlineLoopIsNormalizer ==
  (Expanding({"a32_within_t32", "when"}) /\ log[1].out.status = "ok") =>
    /\ Len(OutBuffer) >= 3
    /\ OutBuffer[1].k = "Literal"
    /\ OutBuffer[2] = CommaAlone
    /\ BeforeFooter =
         extend_concat_as_lines(<<OutBuffer[1], CommaAlone>>, LoopInput)
    /\ log[1].macro = "a32_within_t32" =>
         log[1].out = a32_within_t32_impl(log[1].stream)

\* a body without a trailing comma, so that the fix-up acts
C16_Witness ==
  /\ Expanding({"a32_within_t32"})
  /\ log[1].stream = <<LitAdd1, CommaAlone, LitAdd2>>
  /\ log[1].out.status = "ok"
  /\ IsComma(Last(BeforeFooter))

(***************************************************************************)
(* A further claim about the conditional-block builder, checked under      *)
(* SpecWhen.                                                               *)
(***************************************************************************)
\* test is `lhs op rhs` between two literals, op the tokens in between
OperatorOf(test) == SubSeq(test, 2, Len(test) - 1)

BetweenLiterals(test) ==
  Len(test) >= 2 /\ test[1].k = "Literal" /\ Last(test).k = "Literal"

\* `<`, `>`, `<=`, `>=` as the lexer hands them over
OrderingOperators ==
  {<<Punct(c, "Alone")>> : c \in {"<", ">"}}
  \cup {<<Punct(c, "Joint"), Punct("=", "Alone")>> : c \in {"<", ">"}}

\* `==`, `!=`
EqualityOperators ==
  {<<Punct(c, "Joint"), Punct("=", "Alone")>> : c \in {"=", "!"}}

Signs == {Ident(<<"u">>), Ident(<<"i">>)}

\* literals to put in the place of the operands
OperandLiterals == {LitR0, LitHash0, LitNum0}

\* the test of the expansion with other operands
WithOperands(lhs, rhs) ==
  <<Group(whenIn[1].delim,
          [WhenTest EXCEPT ![1] = lhs, ![Len(WhenTest)] = rhs]),
    whenIn[2]>>

\* C17: an ordering operator with no u/i after it is rejected; an equality
\* operator followed by u/i is rejected; for `==` and `!=` the mnemonic
\* depends on the two punctuation characters only; the operand literals
\* never influence which mnemonic is chosen.
C17_SignednessAsTabled ==
  (WhenRan /\ BetweenLiterals(WhenTest)) =>
    /\ OperatorOf(WhenTest) \in OrderingOperators =>
         (whenOut.status = "panic" /\ whenOut.tokens = <<>>)
    /\ (\E op \in EqualityOperators, sign \in Signs :
          OperatorOf(WhenTest) = Append(op, sign)) =>
         (whenOut.status = "panic" /\ whenOut.tokens = <<>>)
    /\ OperatorOf(WhenTest) \in EqualityOperators =>
         /\ whenOut.status = "ok"
         /\ whenOut.cond = IF WhenTest[2].ch = "=" THEN <<"n", "e">>
                           ELSE <<"e", "q">>
    /\ \A lhs \in OperandLiterals, rhs \in OperandLiterals :
         /\ when_impl(WithOperands(lhs, rhs), 0).status = whenOut.status
         /\ when_impl(WithOperands(lhs, rhs), 0).cond = whenOut.cond

\* `== u` between two literals was rejected
C17_Witness ==
  /\ WhenRan
  /\ WhenTest = <<LitR0, Punct("=", "Joint"), Punct("=", "Alone"),
                  Ident(<<"u">>), LitHash0>>
  /\ whenOut.status = "panic"

====
